---- MODULE Spec2Model ----
(***************************************************************************)
(* Model of the ProviderList component                                     *)
(* (src/app/components/Service/ProviderList.tsx).                          *)
(*                                                                         *)
(* The component's React state, the closure captured by its mount effect,  *)
(* the asynchronous tasks suspended at an await (with the backend's reply  *)
(* in flight), the realtime subscription and the bookings table are the    *)
(* state.  A handler runs atomically up to its next await; the backend's   *)
(* reply and the handler's continuation are separate steps.                *)
(***************************************************************************)
EXTENDS Naturals, Sequences, FiniteSets

----------------------------------------------------------------------------
(* Bounds of the model *)

\* writes to the bookings table in one behaviour: the calls of
\* handleBookingRequest, handleRespond and handleCancel and the changes made
\* by other users
MaxOps == 1
\* raw rows handed to the formatter in SpecFormat
MaxRows == 2
\* presses of the booking list's buttons in SpecList
MaxPresses == 2

----------------------------------------------------------------------------
(* Values *)

\* JavaScript null (and undefined): distinct from every identifier and text
Null == "<null>"

Users == {"u1", "u2"}
Roles == {"client", "practitioner", "unknown"}
RespondStatuses == {"confirmed", "declined"}
\* What the booking form submits
FormData ==
  {[booking_date |-> "2024-06-01T10:30", special_requests |-> "first visit"],
   [booking_date |-> "someday", special_requests |-> ""]}

\* A nullable object is the empty tuple (null) or a one-element tuple.
None == <<>>
Some(v) == <<v>>

\* The services table with the users(name) relation, as `select *, users(name)`
\* returns it.
Catalog ==
  << [id |-> "s1", title |-> "Thai", user_id |-> "u1", users |-> Some([name |-> "Alice"])],
     [id |-> "s2", title |-> "Swedish", user_id |-> "u1", users |-> None] >>

ServiceIds == {Catalog[i].id : i \in 1..Len(Catalog)}

\* The bookings table when the component is constructed, most recently
\* updated first.
SeedBookings ==
  << [id |-> 4, service_id |-> "s1", client_id |-> "u1",
      booking_date |-> "2024-06-01T10:30", special_requests |-> Null, status |-> "pending"],
     [id |-> 3, service_id |-> "s2", client_id |-> "u1",
      booking_date |-> "2024-06-01T10:30", special_requests |-> "first visit", status |-> "confirmed"],
     [id |-> 2, service_id |-> "s0", client_id |-> "u2",
      booking_date |-> "someday", special_requests |-> "", status |-> "pending"],
     [id |-> 1, service_id |-> "s1", client_id |-> "u1",
      booking_date |-> "2024-06-01T10:30", special_requests |-> "first visit", status |-> "pending"],
     [id |-> 0, service_id |-> "s2", client_id |-> "u1",
      booking_date |-> "someday", special_requests |-> Null, status |-> "declined"] >>

\* The rows the bookings query can return, as SpecFormat hands them to the
\* formatter: every shape of the nested relation, null at any level.
RawServices ==
  {None} \cup
  {Some([title |-> t, users |-> u]) :
     t \in {Null, "", "Thai"},
     u \in {None, Some([name |-> Null]), Some([name |-> "Alice"])}}

RawRows ==
  {[id |-> k.id, service_id |-> "s1", client_id |-> "u1",
    booking_date |-> k.booking_date, special_requests |-> t,
    status |-> k.status, services |-> sv] :
     k \in {[id |-> 1, booking_date |-> "2024-06-01T10:30", status |-> "pending"],
            [id |-> 2, booking_date |-> "someday", status |-> "cancelled"]},
     t \in {Null, "", "first visit"},
     sv \in RawServices}

----------------------------------------------------------------------------
(* Sequence helpers *)

\* A query without .limit()
TakeAll(s, n) == s

Take(s, n) == IF Len(s) <= n THEN s ELSE SubSeq(s, 1, n)

Range(s) == {s[i] : i \in 1..Len(s)}

\* The sequences over S of length at most n
SeqsUpTo(S, n) == UNION {[1..k -> S] : k \in 0..n}

----------------------------------------------------------------------------
(* The backend's answers *)

\* .limit(3)
Limit == 3

\* The nested relation services(title, users(name)) of a booking row: null
\* when no service row is visible under the row's service_id.
JoinServices(service_id) ==
  IF \E i \in 1..Len(Catalog) : Catalog[i].id = service_id
  THEN LET c == CHOOSE c \in Range(Catalog) : c.id = service_id
       IN  Some([title |-> c.title, users |-> c.users])
  ELSE None

WithServices(row) ==
  [id |-> row.id, service_id |-> row.service_id, client_id |-> row.client_id,
   booking_date |-> row.booking_date, special_requests |-> row.special_requests,
   status |-> row.status, services |-> JoinServices(row.service_id)]

\* A filter of the bookings query: .eq(col, v) is [col, op "eq", {v}],
\* .in(col, vs) is [col, op "in", vs].
ClientFilter(uid) == [col |-> "client_id", op |-> "eq", vals |-> {uid}]
ServiceFilter(ids) == [col |-> "service_id", op |-> "in", vals |-> ids]

Matches(row, filter) ==
  IF filter.col = "client_id" THEN row.client_id \in filter.vals
  ELSE row.service_id \in filter.vals

\* select(*, services(title, users(name))).order(updated_at desc).limit(3)
\* with the filter, on a table kept most recently updated first.
RunBookingsQuery(table, filter) ==
  LET rows == Take(SelectSeq(table, LAMBDA r : Matches(r, filter)), Limit)
  IN  [i \in 1..Len(rows) |-> WithServices(rows[i])]

\* select('id').eq('user_id', uid) on services
OwnedServiceIds(uid) == {c.id : c \in {c \in Range(Catalog) : c.user_id = uid}}

----------------------------------------------------------------------------
(* The Booking Formatter *)

\* new Date(v).toLocaleDateString() and
\* .toLocaleTimeString([], {hour: '2-digit', minute: '2-digit'})
LocaleDateString(v) == IF v = "2024-06-01T10:30" THEN "6/1/2024" ELSE "Invalid Date"
LocaleTimeString(v) == IF v = "2024-06-01T10:30" THEN "10:30 AM" ELSE "Invalid Date"

\* a ?? b
Coalesce(a, b) == IF a = Null THEN b ELSE a

\* req.services?.title
ServiceTitleOf(req) == IF req.services = None THEN Null ELSE req.services[1].title

\* req.services?.users?.name
PractitionerNameOf(req) ==
  IF req.services = None THEN Null
  ELSE IF req.services[1].users = None THEN Null
  ELSE req.services[1].users[1].name

\* FormatRequest without the null handling of special_requests
FormatRequestRawNote(req) ==
  [id |-> req.id,
   booking_date |-> LocaleDateString(req.booking_date),
   time |-> LocaleTimeString(req.booking_date),
   special_requests |-> req.special_requests,
   status |-> req.status,
   serviceTitle |-> Coalesce(ServiceTitleOf(req), "Unknown Service"),
   practitionerName |-> Coalesce(PractitionerNameOf(req), "Unknown Practitioner")]

FormatRequest(req) ==
  [id |-> req.id,
   booking_date |-> LocaleDateString(req.booking_date),
   time |-> LocaleTimeString(req.booking_date),
   special_requests |-> Coalesce(req.special_requests, ""),
   status |-> req.status,
   serviceTitle |-> Coalesce(ServiceTitleOf(req), "Unknown Service"),
   practitionerName |-> Coalesce(PractitionerNameOf(req), "Unknown Practitioner")]

\* (data || []).map(...)
FormatRequests(data) == [i \in 1..Len(data) |-> FormatRequest(data[i])]

----------------------------------------------------------------------------
(* State *)

VARIABLES
  phase,              \* "init" (rendered, effect not yet run), "mounted", "unmounted"
  userRole,           \* the component-level userRole
  hasCallback,        \* whether the onBookingMade prop is provided
  services,           \* useState: the catalog
  isLoadingServices,  \* useState
  selectedServiceId,  \* useState
  bookingRequests,    \* useState: the view-model list
  clientId,           \* useState
  capturedClientId,   \* clientId as the mount effect's closure holds it
  sessionReq,         \* the getSession() call of fetchCurrentUser
  servicesReq,        \* the services select of fetchServices
  fetches,            \* fetchBookingRequests calls suspended at an await
  fetchCalls,         \* the arguments of the fetchBookingRequests calls so far
  muts,               \* handleBookingRequest/handleRespond/handleCancel calls at their await
  db,                 \* the bookings table, most recently updated first
  channels,           \* realtime channels subscribed and not removed
  subscribed,         \* number of subscribe() calls so far
  removed,            \* number of removeChannel() calls so far
  events,             \* change events emitted to the channel and not yet delivered
  eventsHandled,      \* number of runs of the postgres_changes callback
  queryLog,           \* the filters of the bookings queries issued
  subFetchLog,        \* the user ids of the owned-services selects issued
  insertLog,          \* the rows handed to insert()
  updateLog,          \* the (id, status) pairs handed to update().eq('id', id)
  submits,            \* number of handleBookingRequest calls
  mutations,          \* number of handleRespond and handleCancel calls
  remotes,            \* number of changes other users made
  bookingAlerts,      \* Alert.alert("Error", "You must be logged in ...") calls
  authAlerts,         \* Alert.alert("Authentication Error", ...) calls
  callbacks,          \* onBookingMade() calls
  rawIn,              \* SpecFormat: the rows handed to the formatter
  fmtOut              \* SpecFormat: the formatter's result

compState == <<services, isLoadingServices, selectedServiceId, bookingRequests, clientId>>
taskState == <<sessionReq, servicesReq, fetches, muts>>
backendState == <<db, channels, events>>
logState ==
  <<fetchCalls, queryLog, subFetchLog, insertLog, updateLog, subscribed, removed,
    eventsHandled, bookingAlerts, authAlerts, callbacks>>
envState == <<phase, userRole, hasCallback, capturedClientId, submits, mutations, remotes>>
fmtState == <<rawIn, fmtOut>>
vars == <<compState, taskState, backendState, logState, envState, fmtState>>

Idle == [st |-> "idle", err |-> FALSE, user |-> Null]

\* The state after the first render.  The source pins userRole to 'client'
\* as a placeholder for the role of the signed-in user; fetchBookingRequests
\* branches on all of its values, so the role is drawn here from all of them.
Init ==
  /\ phase = "init"
  /\ userRole \in Roles
  /\ hasCallback \in BOOLEAN
  /\ services = <<>>
  /\ isLoadingServices = TRUE
  /\ selectedServiceId = Null
  /\ bookingRequests = <<>>
  /\ clientId = Null
  /\ capturedClientId = Null
  /\ sessionReq = Idle
  /\ servicesReq = Idle
  /\ fetches = {}
  /\ fetchCalls = <<>>
  /\ muts = {}
  /\ db = SeedBookings
  /\ channels = {}
  /\ subscribed = 0
  /\ removed = 0
  /\ events = 0
  /\ eventsHandled = 0
  /\ queryLog = <<>>
  /\ subFetchLog = <<>>
  /\ insertLog = <<>>
  /\ updateLog = <<>>
  /\ submits = 0
  /\ mutations = 0
  /\ remotes = 0
  /\ bookingAlerts = 0
  /\ authAlerts = 0
  /\ callbacks = 0
  /\ rawIn = <<>>
  /\ fmtOut = <<>>

----------------------------------------------------------------------------
(* fetchBookingRequests *)

NewFetch(uid, st, filter) ==
  [n |-> Len(fetchCalls) + 1, uid |-> uid, st |-> st, err |-> FALSE,
   ids |-> {}, filter |-> filter, rows |-> <<>>]

NoFilter == [col |-> "", op |-> "", vals |-> {}]

\* fetchBookingRequests returning on an absent identifier or an unknown role
\* without clearing the list
FetchBookingRequestsNoClear(currentUserId) ==
  /\ fetchCalls' = Append(fetchCalls, currentUserId)
  /\ IF currentUserId = Null
     THEN UNCHANGED <<bookingRequests, fetches, queryLog, subFetchLog>>
     ELSE IF userRole = "client"
     THEN /\ fetches' = fetches \cup {NewFetch(currentUserId, "query", ClientFilter(currentUserId))}
          /\ queryLog' = Append(queryLog, ClientFilter(currentUserId))
          /\ UNCHANGED <<bookingRequests, subFetchLog>>
     ELSE IF userRole = "practitioner"
     THEN /\ fetches' = fetches \cup {NewFetch(currentUserId, "svc", NoFilter)}
          /\ subFetchLog' = Append(subFetchLog, currentUserId)
          /\ UNCHANGED <<bookingRequests, queryLog>>
     ELSE UNCHANGED <<bookingRequests, fetches, queryLog, subFetchLog>>

\* fetchBookingRequests scoping every role by service ownership
FetchBookingRequestsByOwnership(currentUserId) ==
  /\ fetchCalls' = Append(fetchCalls, currentUserId)
  /\ IF currentUserId = Null
     THEN /\ bookingRequests' = <<>>
          /\ UNCHANGED <<fetches, queryLog, subFetchLog>>
     ELSE IF userRole \in {"client", "practitioner"}
     THEN /\ fetches' = fetches \cup {NewFetch(currentUserId, "svc", NoFilter)}
          /\ subFetchLog' = Append(subFetchLog, currentUserId)
          /\ UNCHANGED <<bookingRequests, queryLog>>
     ELSE /\ bookingRequests' = <<>>
          /\ UNCHANGED <<fetches, queryLog, subFetchLog>>

\* fetchBookingRequests without the guard on an absent identifier
FetchBookingRequestsUnguarded(currentUserId) ==
  /\ fetchCalls' = Append(fetchCalls, currentUserId)
  /\ IF userRole = "client"
     THEN /\ fetches' = fetches \cup {NewFetch(currentUserId, "query", ClientFilter(currentUserId))}
          /\ queryLog' = Append(queryLog, ClientFilter(currentUserId))
          /\ UNCHANGED <<bookingRequests, subFetchLog>>
     ELSE IF userRole = "practitioner"
     THEN /\ fetches' = fetches \cup {NewFetch(currentUserId, "svc", NoFilter)}
          /\ subFetchLog' = Append(subFetchLog, currentUserId)
          /\ UNCHANGED <<bookingRequests, queryLog>>
     ELSE /\ bookingRequests' = <<>>
          /\ UNCHANGED <<fetches, queryLog, subFetchLog>>

\* fetchBookingRequests(currentUserId), up to its first await (or its return).
FetchBookingRequests(currentUserId) ==
  /\ fetchCalls' = Append(fetchCalls, currentUserId)
  /\ IF currentUserId = Null
     THEN /\ bookingRequests' = <<>>
          /\ UNCHANGED <<fetches, queryLog, subFetchLog>>
     ELSE IF userRole = "client"
     THEN /\ fetches' = fetches \cup {NewFetch(currentUserId, "query", ClientFilter(currentUserId))}
          /\ queryLog' = Append(queryLog, ClientFilter(currentUserId))
          /\ UNCHANGED <<bookingRequests, subFetchLog>>
     ELSE IF userRole = "practitioner"
     THEN /\ fetches' = fetches \cup {NewFetch(currentUserId, "svc", NoFilter)}
          /\ subFetchLog' = Append(subFetchLog, currentUserId)
          /\ UNCHANGED <<bookingRequests, queryLog>>
     ELSE /\ bookingRequests' = <<>>
          /\ UNCHANGED <<fetches, queryLog, subFetchLog>>

\* The services select of the practitioner branch is answered.
FetchSubReply(f) ==
  /\ f \in fetches /\ f.st = "svc"
  /\ \E err \in BOOLEAN :
       fetches' = (fetches \ {f}) \cup
         {[f EXCEPT !.st = "svcReplied", !.err = err,
                    !.ids = IF err THEN {} ELSE OwnedServiceIds(f.uid)]}
  /\ UNCHANGED <<compState, sessionReq, servicesReq, muts, backendState, logState,
                 envState, fmtState>>

\* The practitioner branch without the serviceIds.length check
FetchSubContinueNoLengthCheck(f) ==
  /\ f \in fetches /\ f.st = "svcReplied"
  /\ IF f.err
     THEN /\ bookingRequests' = <<>>
          /\ fetches' = fetches \ {f}
          /\ UNCHANGED queryLog
     ELSE /\ fetches' = (fetches \ {f}) \cup
                        {[f EXCEPT !.st = "query", !.filter = ServiceFilter(f.ids)]}
          /\ queryLog' = Append(queryLog, ServiceFilter(f.ids))
          /\ UNCHANGED bookingRequests
  /\ UNCHANGED <<services, isLoadingServices, selectedServiceId, clientId,
                 sessionReq, servicesReq, muts, backendState,
                 fetchCalls, subFetchLog, insertLog, updateLog, subscribed, removed,
                 eventsHandled, bookingAlerts, authAlerts, callbacks,
                 envState, fmtState>>

\* fetchBookingRequests resumes after the services select.
FetchSubContinue(f) ==
  /\ f \in fetches /\ f.st = "svcReplied"
  /\ IF f.err \/ f.ids = {}
     THEN /\ bookingRequests' = <<>>
          /\ fetches' = fetches \ {f}
          /\ UNCHANGED queryLog
     ELSE /\ fetches' = (fetches \ {f}) \cup
                        {[f EXCEPT !.st = "query", !.filter = ServiceFilter(f.ids)]}
          /\ queryLog' = Append(queryLog, ServiceFilter(f.ids))
          /\ UNCHANGED bookingRequests
  /\ UNCHANGED <<services, isLoadingServices, selectedServiceId, clientId,
                 sessionReq, servicesReq, muts, backendState,
                 fetchCalls, subFetchLog, insertLog, updateLog, subscribed, removed,
                 eventsHandled, bookingAlerts, authAlerts, callbacks,
                 envState, fmtState>>

\* The bookings query is answered from the table as it is now.
FetchQueryReply(f) ==
  /\ f \in fetches /\ f.st = "query"
  /\ \E err \in BOOLEAN :
       fetches' = (fetches \ {f}) \cup
         {[f EXCEPT !.st = "queryReplied", !.err = err,
                    !.rows = IF err THEN <<>> ELSE RunBookingsQuery(db, f.filter)]}
  /\ UNCHANGED <<compState, sessionReq, servicesReq, muts, backendState, logState,
                 envState, fmtState>>

\* fetchBookingRequests dropping the answer of a call that is not the latest
FetchQueryContinueLatestOnly(f) ==
  /\ f \in fetches /\ f.st = "queryReplied"
  /\ fetches' = fetches \ {f}
  /\ bookingRequests' =
       IF f.n # Len(fetchCalls) THEN bookingRequests
       ELSE IF f.err THEN <<>> ELSE FormatRequests(f.rows)
  /\ UNCHANGED <<services, isLoadingServices, selectedServiceId, clientId,
                 sessionReq, servicesReq, muts, backendState, logState,
                 envState, fmtState>>

\* fetchBookingRequests resumes after `await query`.
FetchQueryContinue(f) ==
  /\ f \in fetches /\ f.st = "queryReplied"
  /\ fetches' = fetches \ {f}
  /\ bookingRequests' = IF f.err THEN <<>> ELSE FormatRequests(f.rows)
  /\ UNCHANGED <<services, isLoadingServices, selectedServiceId, clientId,
                 sessionReq, servicesReq, muts, backendState, logState,
                 envState, fmtState>>

----------------------------------------------------------------------------
(* The mount effect *)

\* While fetchBookingRequests is not called
NoFetchCall == UNCHANGED <<fetches, fetchCalls, queryLog, subFetchLog>>

\* useEffect(() => {...}, []): fetchCurrentUser(), fetchServices(), subscribe.
\* The callback handed to .on() closes over this render's clientId.
Mount ==
  /\ phase = "init"
  /\ phase' = "mounted"
  /\ sessionReq' = [Idle EXCEPT !.st = "pending"]
  /\ isLoadingServices' = TRUE
  /\ servicesReq' = [Idle EXCEPT !.st = "pending"]
  /\ capturedClientId' = clientId
  /\ channels' = channels \cup {"public:bookings"}
  /\ subscribed' = subscribed + 1
  /\ NoFetchCall
  /\ UNCHANGED <<services, selectedServiceId, bookingRequests, clientId, muts, db,
                 events, insertLog, updateLog, removed, eventsHandled,
                 bookingAlerts, authAlerts, callbacks,
                 userRole, hasCallback, submits, mutations, remotes, fmtState>>

\* An effect that returns no cleanup
UnmountWithoutCleanup ==
  /\ phase = "mounted"
  /\ phase' = "unmounted"
  /\ NoFetchCall
  /\ UNCHANGED <<compState, sessionReq, servicesReq, muts, backendState,
                 insertLog, updateLog, subscribed, removed, eventsHandled,
                 bookingAlerts, authAlerts, callbacks,
                 userRole, hasCallback, capturedClientId, submits, mutations, remotes,
                 fmtState>>

\* A cleanup that also aborts what is in flight
UnmountAbortsTasks ==
  /\ phase = "mounted"
  /\ phase' = "unmounted"
  /\ channels' = channels \ {"public:bookings"}
  /\ removed' = removed + 1
  /\ events' = 0
  /\ fetches' = {}
  /\ muts' = {}
  /\ sessionReq' = IF sessionReq.st = "pending" THEN [sessionReq EXCEPT !.st = "done"] ELSE sessionReq
  /\ servicesReq' = IF servicesReq.st = "pending" THEN [servicesReq EXCEPT !.st = "done"] ELSE servicesReq
  /\ UNCHANGED <<compState, db, fetchCalls, queryLog, subFetchLog,
                 insertLog, updateLog, subscribed, eventsHandled,
                 bookingAlerts, authAlerts, callbacks,
                 userRole, hasCallback, capturedClientId, submits, mutations, remotes,
                 fmtState>>

\* The effect's cleanup: supabase.removeChannel(bookingsChannel).
Unmount ==
  /\ phase = "mounted"
  /\ phase' = "unmounted"
  /\ channels' = channels \ {"public:bookings"}
  /\ removed' = removed + 1
  /\ events' = 0
  /\ NoFetchCall
  /\ UNCHANGED <<compState, sessionReq, servicesReq, muts, db,
                 insertLog, updateLog, subscribed, eventsHandled,
                 bookingAlerts, authAlerts, callbacks,
                 userRole, hasCallback, capturedClientId, submits, mutations, remotes,
                 fmtState>>

\* fetchCurrentUser logging a session error without the alert
SessionContinueWithoutAlert ==
  /\ sessionReq.st = "pending"
  /\ \E err \in BOOLEAN, user \in Users \cup {Null} :
       /\ err => user = Null
       /\ sessionReq' = [st |-> "done", err |-> err, user |-> user]
       /\ IF err
          THEN /\ NoFetchCall
               /\ UNCHANGED <<clientId, bookingRequests, authAlerts>>
          ELSE IF user # Null
          THEN /\ clientId' = user
               /\ FetchBookingRequests(user)
               /\ UNCHANGED authAlerts
          ELSE /\ bookingRequests' = <<>>
               /\ NoFetchCall
               /\ UNCHANGED <<clientId, authAlerts>>
  /\ UNCHANGED <<services, isLoadingServices, selectedServiceId,
                 servicesReq, muts, backendState,
                 insertLog, updateLog, subscribed, removed, eventsHandled,
                 bookingAlerts, callbacks, envState, fmtState>>

\* supabase.auth.getSession() is answered (an error, a session or none) and
\* fetchCurrentUser resumes.
SessionContinue ==
  /\ sessionReq.st = "pending"
  /\ \E err \in BOOLEAN, user \in Users \cup {Null} :
       /\ err => user = Null
       /\ sessionReq' = [st |-> "done", err |-> err, user |-> user]
       /\ IF err
          THEN /\ authAlerts' = authAlerts + 1
               /\ NoFetchCall
               /\ UNCHANGED <<clientId, bookingRequests>>
          ELSE IF user # Null
          THEN /\ clientId' = user
               /\ FetchBookingRequests(user)
               /\ UNCHANGED authAlerts
          ELSE /\ bookingRequests' = <<>>
               /\ NoFetchCall
               /\ UNCHANGED <<clientId, authAlerts>>
  /\ UNCHANGED <<services, isLoadingServices, selectedServiceId,
                 servicesReq, muts, backendState,
                 insertLog, updateLog, subscribed, removed, eventsHandled,
                 bookingAlerts, callbacks, envState, fmtState>>

\* fetchServices returning on an error before setIsLoadingServices(false)
ServicesContinueReturnsOnError ==
  /\ servicesReq.st = "pending"
  /\ \E err \in BOOLEAN :
       /\ servicesReq' = [st |-> "done", err |-> err, user |-> Null]
       /\ services' = IF err THEN <<>> ELSE Catalog
       /\ isLoadingServices' = err
  /\ UNCHANGED <<selectedServiceId, bookingRequests, clientId,
                 sessionReq, fetches, muts, backendState, logState, envState, fmtState>>

\* The services select of fetchServices is answered and fetchServices resumes.
ServicesContinue ==
  /\ servicesReq.st = "pending"
  /\ \E err \in BOOLEAN :
       /\ servicesReq' = [st |-> "done", err |-> err, user |-> Null]
       /\ services' = IF err THEN <<>> ELSE Catalog
  /\ isLoadingServices' = FALSE
  /\ UNCHANGED <<selectedServiceId, bookingRequests, clientId,
                 sessionReq, fetches, muts, backendState, logState, envState, fmtState>>

\* The postgres_changes callback: fetchBookingRequests(clientId), with the
\* clientId of the closure.
OnBookingsChange ==
  /\ "public:bookings" \in channels
  /\ events > 0
  /\ events' = events - 1
  /\ eventsHandled' = eventsHandled + 1
  /\ FetchBookingRequests(capturedClientId)
  /\ UNCHANGED <<services, isLoadingServices, selectedServiceId, clientId,
                 sessionReq, servicesReq, muts, db, channels,
                 insertLog, updateLog, subscribed, removed,
                 bookingAlerts, authAlerts, callbacks, envState, fmtState>>

----------------------------------------------------------------------------
(* The view *)

\* The service cards are rendered once the catalog has loaded.
Rendered(serviceId) ==
  /\ phase = "mounted"
  /\ ~isLoadingServices
  /\ \E i \in 1..Len(services) : services[i].id = serviceId

\* "Request Booking": setSelectedServiceId(prevId => prevId === service.id ? null : service.id)
ToggleService(serviceId) ==
  /\ Rendered(serviceId)
  /\ selectedServiceId' = IF selectedServiceId = serviceId THEN Null ELSE serviceId
  /\ UNCHANGED <<services, isLoadingServices, bookingRequests, clientId,
                 taskState, backendState, logState, envState, fmtState>>

\* The form's onCancel: setSelectedServiceId(null)
FormCancel ==
  /\ selectedServiceId # Null
  /\ Rendered(selectedServiceId)
  /\ selectedServiceId' = Null
  /\ UNCHANGED <<services, isLoadingServices, bookingRequests, clientId,
                 taskState, backendState, logState, envState, fmtState>>

----------------------------------------------------------------------------
(* Mutation handlers *)

Ops == submits + mutations + remotes

NextMut == submits + mutations + 1

\* handleBookingRequest without the clientId check
HandleBookingRequestUnchecked(request, serviceId) ==
  /\ submits' = submits + 1
  /\ LET bookingDataToInsert ==
           [service_id |-> serviceId,
            client_id |-> clientId,
            booking_date |-> request.booking_date,
            special_requests |-> request.special_requests,
            status |-> "pending"]
     IN  /\ muts' = muts \cup
              {[n |-> NextMut, kind |-> "insert", id |-> 0, status |-> "pending",
                row |-> Some(bookingDataToInsert), st |-> "sent", err |-> FALSE]}
         /\ insertLog' = Append(insertLog, bookingDataToInsert)
         /\ UNCHANGED bookingAlerts

\* handleBookingRequest booking the first service of the catalog
HandleBookingRequestFirstService(request, serviceId) ==
  /\ submits' = submits + 1
  /\ IF clientId = Null
     THEN /\ bookingAlerts' = bookingAlerts + 1
          /\ UNCHANGED <<muts, insertLog>>
     ELSE LET bookingDataToInsert ==
                [service_id |-> services[1].id,
                 client_id |-> clientId,
                 booking_date |-> request.booking_date,
                 special_requests |-> request.special_requests,
                 status |-> "pending"]
          IN  /\ muts' = muts \cup
                   {[n |-> NextMut, kind |-> "insert", id |-> 0, status |-> "pending",
                     row |-> Some(bookingDataToInsert), st |-> "sent", err |-> FALSE]}
              /\ insertLog' = Append(insertLog, bookingDataToInsert)
              /\ UNCHANGED bookingAlerts

\* handleBookingRequest(request, serviceId) up to its await, called by the
\* form's onSubmit with the selected service.
HandleBookingRequest(request, serviceId) ==
  /\ submits' = submits + 1
  /\ IF clientId = Null
     THEN /\ bookingAlerts' = bookingAlerts + 1
          /\ UNCHANGED <<muts, insertLog>>
     ELSE LET bookingDataToInsert ==
                [service_id |-> serviceId,
                 client_id |-> clientId,
                 booking_date |-> request.booking_date,
                 special_requests |-> request.special_requests,
                 status |-> "pending"]
          IN  /\ muts' = muts \cup
                   {[n |-> NextMut, kind |-> "insert", id |-> 0, status |-> "pending",
                     row |-> Some(bookingDataToInsert), st |-> "sent", err |-> FALSE]}
              /\ insertLog' = Append(insertLog, bookingDataToInsert)
              /\ UNCHANGED bookingAlerts

\* BookingRequestForm onSubmit: handleBookingRequest(formData, selectedServiceId)
FormSubmit ==
  /\ selectedServiceId # Null
  /\ Rendered(selectedServiceId)
  /\ Ops < MaxOps
  /\ \E formData \in FormData : HandleBookingRequest(formData, selectedServiceId)
  /\ NoFetchCall
  /\ UNCHANGED <<compState, sessionReq, servicesReq, backendState,
                 updateLog, subscribed, removed, eventsHandled, authAlerts, callbacks,
                 phase, userRole, hasCallback, capturedClientId, mutations, remotes,
                 fmtState>>

\* The booking list is rendered while it is not empty; it offers its entries.
Listed(id) ==
  /\ phase = "mounted"
  /\ \E i \in 1..Len(bookingRequests) : bookingRequests[i].id = id

\* handleRespond(id, status) up to its await
HandleRespond(id, status) ==
  /\ muts' = muts \cup
       {[n |-> NextMut, kind |-> "respond", id |-> id, status |-> status,
         row |-> None, st |-> "sent", err |-> FALSE]}
  /\ updateLog' = Append(updateLog, <<id, status>>)

\* handleCancel(id) up to its await
HandleCancel(id) ==
  /\ muts' = muts \cup
       {[n |-> NextMut, kind |-> "cancel", id |-> id, status |-> "cancelled",
         row |-> None, st |-> "sent", err |-> FALSE]}
  /\ updateLog' = Append(updateLog, <<id, "cancelled">>)

\* BookingRequests onRespond
Respond ==
  /\ Ops < MaxOps
  /\ \E i \in 1..Len(bookingRequests), status \in RespondStatuses :
       /\ Listed(bookingRequests[i].id)
       /\ HandleRespond(bookingRequests[i].id, status)
  /\ mutations' = mutations + 1
  /\ NoFetchCall
  /\ UNCHANGED <<compState, sessionReq, servicesReq, backendState,
                 insertLog, subscribed, removed, eventsHandled,
                 bookingAlerts, authAlerts, callbacks,
                 phase, userRole, hasCallback, capturedClientId, submits, remotes,
                 fmtState>>

\* BookingRequests onCancel
Cancel ==
  /\ Ops < MaxOps
  /\ \E i \in 1..Len(bookingRequests) :
       /\ Listed(bookingRequests[i].id)
       /\ HandleCancel(bookingRequests[i].id)
  /\ mutations' = mutations + 1
  /\ NoFetchCall
  /\ UNCHANGED <<compState, sessionReq, servicesReq, backendState,
                 insertLog, subscribed, removed, eventsHandled,
                 bookingAlerts, authAlerts, callbacks,
                 phase, userRole, hasCallback, capturedClientId, submits, remotes,
                 fmtState>>

\* A row change reaches every subscribed channel.
Emit == IF channels # {} THEN events + 1 ELSE events

\* update({status}).eq('id', id) on the table: the matching row gets the
\* status; `touch` says whether the table bumps its updated_at.
UpdateStatus(table, id, status, touch) ==
  LET hit == SelectSeq(table, LAMBDA r : r.id = id)
      rest == SelectSeq(table, LAMBDA r : r.id # id)
      set(r) == [r EXCEPT !.status = status]
  IN  IF touch THEN [i \in 1..Len(hit) |-> set(hit[i])] \o rest
      ELSE [i \in 1..Len(table) |-> IF table[i].id = id THEN set(table[i]) ELSE table[i]]

\* insert([row]) on the table: the table assigns the id.
InsertRow(table, row) ==
  << [id |-> Len(table), service_id |-> row.service_id, client_id |-> row.client_id,
      booking_date |-> row.booking_date, special_requests |-> row.special_requests,
      status |-> row.status] >> \o table

\* The backend executes a write and answers it.
MutReply(m) ==
  /\ m \in muts /\ m.st = "sent"
  /\ \/ /\ muts' = (muts \ {m}) \cup {[m EXCEPT !.st = "replied", !.err = TRUE]}
        /\ UNCHANGED <<db, events>>
     \/ /\ muts' = (muts \ {m}) \cup {[m EXCEPT !.st = "replied"]}
        /\ IF m.kind = "insert"
           THEN db' = InsertRow(db, m.row[1])
           ELSE \E touch \in BOOLEAN : db' = UpdateStatus(db, m.id, m.status, touch)
        /\ events' = Emit
  /\ UNCHANGED <<compState, sessionReq, servicesReq, fetches, channels, logState,
                 envState, fmtState>>

\* A patch that sets the status of every entry
PatchStatusOfAll(prevRequests, id, status) ==
  [i \in 1..Len(prevRequests) |-> [prevRequests[i] EXCEPT !.status = status]]

\* prevRequests.map(req => req.id === id ? { ...req, status: status } : req)
PatchStatus(prevRequests, id, status) ==
  [i \in 1..Len(prevRequests) |->
     LET req == prevRequests[i]
     IN  IF req.id = id THEN [req EXCEPT !.status = status] ELSE req]

\* A patch that takes the cancelled entry out of the list
PatchCancelledRemoves(prevRequests, id) ==
  SelectSeq(prevRequests, LAMBDA req : req.id # id)

\* prevRequests.map(req => req.id === id ? { ...req, status: 'cancelled' } : req)
PatchCancelled(prevRequests, id) ==
  [i \in 1..Len(prevRequests) |->
     LET req == prevRequests[i]
     IN  IF req.id = id THEN [req EXCEPT !.status = "cancelled"] ELSE req]

\* onBookingMade, when provided, is called.
NotifyBookingMade == IF hasCallback THEN callbacks + 1 ELSE callbacks

\* handleBookingRequest calling onBookingMade whatever the insert answered
BookingRequestContinueAlwaysNotifies(m) ==
  /\ m \in muts /\ m.st = "replied" /\ m.kind = "insert"
  /\ muts' = muts \ {m}
  /\ callbacks' = NotifyBookingMade
  /\ selectedServiceId' = Null
  /\ NoFetchCall
  /\ UNCHANGED <<services, isLoadingServices, bookingRequests, clientId,
                 sessionReq, servicesReq, backendState,
                 insertLog, updateLog, subscribed, removed, eventsHandled,
                 bookingAlerts, authAlerts, envState, fmtState>>

\* handleBookingRequest clearing the selected service only when the insert
\* succeeded
BookingRequestContinueKeepsFormOnError(m) ==
  /\ m \in muts /\ m.st = "replied" /\ m.kind = "insert"
  /\ muts' = muts \ {m}
  /\ callbacks' = IF m.err THEN callbacks ELSE NotifyBookingMade
  /\ selectedServiceId' = IF m.err THEN selectedServiceId ELSE Null
  /\ NoFetchCall
  /\ UNCHANGED <<services, isLoadingServices, bookingRequests, clientId,
                 sessionReq, servicesReq, backendState,
                 insertLog, updateLog, subscribed, removed, eventsHandled,
                 bookingAlerts, authAlerts, envState, fmtState>>

\* handleBookingRequest resumes after the insert.
BookingRequestContinue(m) ==
  /\ m \in muts /\ m.st = "replied" /\ m.kind = "insert"
  /\ muts' = muts \ {m}
  /\ callbacks' = IF m.err THEN callbacks ELSE NotifyBookingMade
  /\ selectedServiceId' = Null
  /\ NoFetchCall
  /\ UNCHANGED <<services, isLoadingServices, bookingRequests, clientId,
                 sessionReq, servicesReq, backendState,
                 insertLog, updateLog, subscribed, removed, eventsHandled,
                 bookingAlerts, authAlerts, envState, fmtState>>

\* handleRespond resumes after the update.
RespondContinue(m) ==
  /\ m \in muts /\ m.st = "replied" /\ m.kind = "respond"
  /\ muts' = muts \ {m}
  /\ bookingRequests' =
       IF m.err THEN bookingRequests ELSE PatchStatus(bookingRequests, m.id, m.status)
  /\ UNCHANGED <<services, isLoadingServices, selectedServiceId, clientId,
                 sessionReq, servicesReq, fetches, backendState, logState,
                 envState, fmtState>>

\* handleCancel patching the list whatever the update answered
CancelContinueAlwaysPatches(m) ==
  /\ m \in muts /\ m.st = "replied" /\ m.kind = "cancel"
  /\ muts' = muts \ {m}
  /\ bookingRequests' = PatchCancelled(bookingRequests, m.id)
  /\ UNCHANGED <<services, isLoadingServices, selectedServiceId, clientId,
                 sessionReq, servicesReq, fetches, backendState, logState,
                 envState, fmtState>>

\* handleCancel resumes after the update.
CancelContinue(m) ==
  /\ m \in muts /\ m.st = "replied" /\ m.kind = "cancel"
  /\ muts' = muts \ {m}
  /\ bookingRequests' =
       IF m.err THEN bookingRequests ELSE PatchCancelled(bookingRequests, m.id)
  /\ UNCHANGED <<services, isLoadingServices, selectedServiceId, clientId,
                 sessionReq, servicesReq, fetches, backendState, logState,
                 envState, fmtState>>

\* Another user confirms the booking that was updated longest ago.
RemoteChange ==
  /\ Ops < MaxOps
  /\ remotes' = remotes + 1
  /\ db' = UpdateStatus(db, db[Len(db)].id, "confirmed", TRUE)
  /\ events' = Emit
  /\ UNCHANGED <<compState, taskState, channels, logState,
                 phase, userRole, hasCallback, capturedClientId, submits, mutations,
                 fmtState>>

----------------------------------------------------------------------------
(* Specification *)

Next ==
  \/ Mount
  \/ Unmount
  \/ SessionContinue
  \/ ServicesContinue
  \/ OnBookingsChange
  \/ \E f \in fetches : FetchSubReply(f)
  \/ \E f \in fetches : FetchSubContinue(f)
  \/ \E f \in fetches : FetchQueryReply(f)
  \/ \E f \in fetches : FetchQueryContinue(f)
  \/ \E s \in ServiceIds : ToggleService(s)
  \/ FormCancel
  \/ FormSubmit
  \/ Respond
  \/ Cancel
  \/ \E m \in muts : MutReply(m)
  \/ \E m \in muts : BookingRequestContinue(m)
  \/ \E m \in muts : RespondContinue(m)
  \/ \E m \in muts : CancelContinue(m)
  \/ RemoteChange

Spec == Init /\ [][Next]_vars

----------------------------------------------------------------------------
(* The Booking Formatter on its own: every sequence of at most MaxRows raw
   rows is formatted once. *)

InitFormat ==
  /\ phase = "format"
  /\ userRole = "client"
  /\ hasCallback = TRUE
  /\ services = <<>>
  /\ isLoadingServices = TRUE
  /\ selectedServiceId = Null
  /\ bookingRequests = <<>>
  /\ clientId = Null
  /\ capturedClientId = Null
  /\ sessionReq = Idle
  /\ servicesReq = Idle
  /\ fetches = {}
  /\ fetchCalls = <<>>
  /\ muts = {}
  /\ db = SeedBookings
  /\ channels = {}
  /\ subscribed = 0
  /\ removed = 0
  /\ events = 0
  /\ eventsHandled = 0
  /\ queryLog = <<>>
  /\ subFetchLog = <<>>
  /\ insertLog = <<>>
  /\ updateLog = <<>>
  /\ submits = 0
  /\ mutations = 0
  /\ remotes = 0
  /\ bookingAlerts = 0
  /\ authAlerts = 0
  /\ callbacks = 0
  /\ rawIn \in SeqsUpTo(RawRows, MaxRows)
  /\ fmtOut = <<>>

Format ==
  /\ phase = "format"
  /\ phase' = "formatted"
  /\ fmtOut' = FormatRequests(rawIn)
  /\ UNCHANGED <<compState, taskState, backendState, logState,
                 userRole, hasCallback, capturedClientId, submits, mutations, remotes,
                 rawIn>>

NextFormat == Format

SpecFormat == InitFormat /\ [][NextFormat]_vars

----------------------------------------------------------------------------
(* The booking list on its own: a signed-in client whose catalog and bookings
   have loaded presses the list's buttons, up to MaxPresses times, while
   earlier writes are still in flight. *)

InitLoaded ==
  /\ phase = "mounted"
  /\ userRole = "client"
  /\ hasCallback = TRUE
  /\ services = Catalog
  /\ isLoadingServices = FALSE
  /\ selectedServiceId = Null
  /\ bookingRequests = FormatRequests(RunBookingsQuery(SeedBookings, ClientFilter("u1")))
  /\ clientId = "u1"
  /\ capturedClientId = Null
  /\ sessionReq = [st |-> "done", err |-> FALSE, user |-> "u1"]
  /\ servicesReq = [st |-> "done", err |-> FALSE, user |-> Null]
  /\ fetches = {}
  /\ fetchCalls = <<"u1">>
  /\ muts = {}
  /\ db = SeedBookings
  /\ channels = {"public:bookings"}
  /\ subscribed = 1
  /\ removed = 0
  /\ events = 0
  /\ eventsHandled = 0
  /\ queryLog = <<ClientFilter("u1")>>
  /\ subFetchLog = <<>>
  /\ insertLog = <<>>
  /\ updateLog = <<>>
  /\ submits = 0
  /\ mutations = 0
  /\ remotes = 0
  /\ bookingAlerts = 0
  /\ authAlerts = 0
  /\ callbacks = 0
  /\ rawIn = <<>>
  /\ fmtOut = <<>>

\* BookingRequests onRespond / onCancel
Press ==
  /\ mutations < MaxPresses
  /\ \E i \in 1..Len(bookingRequests) :
       /\ Listed(bookingRequests[i].id)
       /\ \/ HandleCancel(bookingRequests[i].id)
          \/ \E status \in RespondStatuses : HandleRespond(bookingRequests[i].id, status)
  /\ mutations' = mutations + 1
  /\ NoFetchCall
  /\ UNCHANGED <<compState, sessionReq, servicesReq, backendState,
                 insertLog, subscribed, removed, eventsHandled,
                 bookingAlerts, authAlerts, callbacks,
                 phase, userRole, hasCallback, capturedClientId, submits, remotes,
                 fmtState>>

NextList ==
  \/ Press
  \/ \E m \in muts : MutReply(m)
  \/ \E m \in muts : RespondContinue(m)
  \/ \E m \in muts : CancelContinue(m)
  \/ OnBookingsChange

SpecList == InitLoaded /\ [][NextList]_vars

----------------------------------------------------------------------------
(* Properties *)

\* The step is a run of the postgres_changes callback.
ChangeEventHandled == eventsHandled' = eventsHandled + 1

\* The step is a call of fetchBookingRequests with this argument.
FetchCalledWith(uid) == fetchCalls' = Append(fetchCalls, uid)

\* The step is a call of handleBookingRequest.
BookingRequestHandled == submits' = submits + 1

\* The step resumes the suspended call m (of a handler) or f (of a fetch).
Resumes(m) == m \in muts /\ m.st = "replied" /\ m \notin muts'
ResumesFetch(f, st) == f \in fetches /\ f.st = st /\ f \notin fetches'

\* C1: every change event received while mounted re-runs the booking fetch
\* with the most recently known user identifier (the clientId state as it is
\* when the event arrives, not the one known at mount), and so sends the
\* role-scoped request of that user.  Stated for the role the source has.
C1_RefetchUsesLatestClientId ==
  [][(ChangeEventHandled /\ phase = "mounted" /\ userRole = "client") =>
       /\ FetchCalledWith(clientId)
       /\ clientId # Null =>
            queryLog' = Append(queryLog, [col |-> "client_id", op |-> "eq", vals |-> {clientId}])]_vars

\* C2: handleBookingRequest called while no user identifier is known raises
\* the blocking alert, issues no insert, does not call onBookingMade and
\* changes no component state.
C2_NoUserNoInsert ==
  [][(BookingRequestHandled /\ clientId = Null) =>
       /\ bookingAlerts' = bookingAlerts + 1
       /\ insertLog' = insertLog
       /\ muts' = muts
       /\ db' = db
       /\ callbacks' = callbacks
       /\ UNCHANGED compState]_vars

C2_Witness ==
  /\ submits = 1
  /\ clientId = Null
  /\ bookingAlerts = 1
  /\ insertLog = <<>>
  /\ selectedServiceId # Null

\* C3: when handleRespond resumes after a successful update, the list keeps
\* its length, order and identifiers; the entry with the identifier gets the
\* status, its other fields untouched, and every other entry is unchanged.
C3_RespondPatchesOneEntry ==
  [][\A m \in muts :
       (Resumes(m) /\ m.kind = "respond" /\ ~m.err) =>
         /\ Len(bookingRequests') = Len(bookingRequests)
         /\ \A i \in 1..Len(bookingRequests) :
              IF bookingRequests[i].id = m.id
              THEN bookingRequests'[i] = [bookingRequests[i] EXCEPT !.status = m.status]
              ELSE bookingRequests'[i] = bookingRequests[i]]_vars

C3_Witness ==
  /\ updateLog = << <<4, "declined">> >>
  /\ muts = {}
  /\ Len(bookingRequests) = 3
  /\ bookingRequests[1].id = 4 /\ bookingRequests[1].status = "declined"
  /\ bookingRequests[2].status = "confirmed"
  /\ bookingRequests[3].status = "pending"

\* C4: one subscription is opened, at mount; unmount removes it, once; after
\* unmount no channel is held and no change event runs the callback.
C4_SubscriptionLifetime ==
  /\ [](/\ phase = "init" => (subscribed = 0 /\ removed = 0 /\ channels = {})
        /\ phase = "mounted" =>
             (subscribed = 1 /\ removed = 0 /\ channels = {"public:bookings"})
        /\ phase = "unmounted" => (subscribed = 1 /\ removed = 1 /\ channels = {}))
  /\ [][phase = "unmounted" => ~ChangeEventHandled]_vars

C4_Witness ==
  /\ phase = "unmounted"
  /\ remotes = 1
  /\ channels = {}
  /\ removed = 1
  /\ eventsHandled = 0

\* The inserts the backend stored
StoredInserts == Len(db) - Len(SeedBookings)

\* The handleBookingRequest calls whose insert succeeded and that have not
\* resumed yet
SuccessesToResume == {m \in muts : m.kind = "insert" /\ m.st = "replied" /\ ~m.err}

\* C5: onBookingMade, when provided, has been called once for every insert
\* that succeeded and whose handler has resumed, and for nothing else.
C5_OneCallbackPerSuccess ==
  callbacks = IF hasCallback THEN StoredInserts - Cardinality(SuccessesToResume) ELSE 0

C5_Witness ==
  /\ hasCallback
  /\ callbacks = 1
  /\ StoredInserts = 1
  /\ muts = {}

\* C6: a practitioner's fetch first selects the owned services; when that
\* select fails or returns no service, the fetch ends with the empty list and
\* issues no bookings query.
C6_PractitionerShortCircuit ==
  /\ [][\A u \in Users : (FetchCalledWith(u) /\ userRole = "practitioner") =>
          (subFetchLog' = Append(subFetchLog, u) /\ queryLog' = queryLog)]_vars
  /\ [][\A f \in fetches :
          (ResumesFetch(f, "svcReplied") /\ (f.err \/ f.ids = {})) =>
            /\ bookingRequests' = <<>>
            /\ queryLog' = queryLog
            /\ \A g \in fetches' : g.n # f.n]_vars

C6_Witness ==
  /\ userRole = "practitioner"
  /\ clientId = "u2"
  /\ subFetchLog = <<"u2">>
  /\ fetches = {}
  /\ queryLog = <<>>
  /\ bookingRequests = <<>>

\* C7: for the client role every bookings query is filtered by client_id
\* equal to the identifier passed to the fetch and by nothing else, and no
\* owned-services select is issued.
C7_ClientFilterOnly ==
  /\ [](userRole = "client" =>
          /\ subFetchLog = <<>>
          /\ \A f \in fetches :
               /\ f.st \in {"query", "queryReplied"}
               /\ f.filter = [col |-> "client_id", op |-> "eq", vals |-> {f.uid}])
  /\ [][userRole = "client" =>
          \/ queryLog' = queryLog
          \/ \E u \in Users :
               /\ FetchCalledWith(u)
               /\ queryLog' = Append(queryLog, [col |-> "client_id", op |-> "eq", vals |-> {u}])]_vars

C7_Witness ==
  /\ userRole = "client"
  /\ queryLog = << [col |-> "client_id", op |-> "eq", vals |-> {"u1"}] >>
  /\ Len(bookingRequests) = 3

\* C8: every insert handed to the backend has status "pending", the service
\* whose form was submitted, the known user identifier and the form's date
\* and special request.
C8_InsertPayload ==
  /\ [](\A i \in 1..Len(insertLog) : insertLog[i].status = "pending")
  /\ [](\A m \in muts : m.kind = "insert" => m.row[1] \in Range(insertLog))
  /\ [][insertLog' # insertLog =>
          /\ BookingRequestHandled
          /\ clientId # Null
          /\ \E formData \in FormData :
               insertLog' = Append(insertLog,
                 [service_id |-> selectedServiceId,
                  client_id |-> clientId,
                  booking_date |-> formData.booking_date,
                  special_requests |-> formData.special_requests,
                  status |-> "pending"])]_vars

C8_Witness ==
  insertLog = << [service_id |-> "s2", client_id |-> "u1",
                  booking_date |-> "2024-06-01T10:30",
                  special_requests |-> "first visit", status |-> "pending"] >>

\* The nested relation of a raw row lacks the service or its title / the
\* service, its provider or the provider's name.
TitleMissing(row) == row.services = None \/ row.services[1].title = Null
NameMissing(row) ==
  \/ row.services = None
  \/ row.services[1].users = None
  \/ row.services[1].users[1].name = Null

\* C9: the formatter keeps the length, the order, the identifiers and the
\* statuses; a missing service or title gives "Unknown Service", a missing
\* service, provider or name gives "Unknown Practitioner", and a missing
\* special request gives the empty string.
C9_FormatterFallbacks ==
  phase = "formatted" =>
    /\ Len(fmtOut) = Len(rawIn)
    /\ \A i \in 1..Len(rawIn) :
         /\ fmtOut[i].id = rawIn[i].id
         /\ fmtOut[i].status = rawIn[i].status
         /\ TitleMissing(rawIn[i]) => fmtOut[i].serviceTitle = "Unknown Service"
         /\ NameMissing(rawIn[i]) => fmtOut[i].practitionerName = "Unknown Practitioner"
         /\ rawIn[i].special_requests = Null => fmtOut[i].special_requests = ""

C9_Witness ==
  /\ phase = "formatted"
  /\ Len(rawIn) = 2
  /\ rawIn[1].services = None /\ rawIn[1].special_requests = Null
  /\ rawIn[2].services # None /\ rawIn[2].services[1].title = Null
  /\ rawIn[2].services[1].users # None /\ rawIn[2].services[1].users[1].name = Null
  /\ fmtOut[1].serviceTitle = "Unknown Service"
  /\ fmtOut[2].practitionerName = "Unknown Practitioner"

\* C10: a booking fetch that ends without a successful bookings query (no
\* identifier, unknown role, failed owned-services select, failed query)
\* leaves the list empty; with no identifier nothing is sent to the backend.
C10_FailedFetchClearsList ==
  /\ [][FetchCalledWith(Null) =>
          /\ bookingRequests' = <<>>
          /\ fetches' = fetches
          /\ queryLog' = queryLog
          /\ subFetchLog' = subFetchLog]_vars
  /\ [][\A u \in Users :
          (FetchCalledWith(u) /\ userRole \notin {"client", "practitioner"}) =>
            (bookingRequests' = <<>> /\ fetches' = fetches /\ queryLog' = queryLog)]_vars
  /\ [][\A f \in fetches :
          ((ResumesFetch(f, "svcReplied") \/ ResumesFetch(f, "queryReplied")) /\ f.err) =>
            (bookingRequests' = <<>> /\ queryLog' = queryLog)]_vars

C10_Witness ==
  /\ userRole = "client"
  /\ clientId = "u1"
  /\ fetchCalls = <<"u1", Null>>
  /\ Len(queryLog) = 1
  /\ fetches = {}
  /\ bookingRequests = <<>>


\* The session retrieval has resolved without a user: no session, or an error.
SessionWithoutUser == sessionReq.st = "done" /\ sessionReq.user = Null

\* The step is the completion of the session retrieval.
SessionResolves == sessionReq.st = "pending" /\ sessionReq'.st = "done"

\* C11: when the session retrieval resolves with no session or an error, the
\* user identifier stays absent, the booking list is empty, no bookings
\* request is sent, and the catalog fetch goes on untouched; an error raises
\* the authentication alert, once; the retrieval is never started again.
C11_NoSessionNoBookings ==
  /\ [](SessionWithoutUser =>
          /\ clientId = Null
          /\ bookingRequests = <<>>
          /\ queryLog = <<>> /\ subFetchLog = <<>> /\ fetches = {}
          /\ authAlerts = IF sessionReq.err THEN 1 ELSE 0)
  /\ [][(SessionResolves /\ sessionReq'.user = Null) =>
          UNCHANGED <<services, isLoadingServices, servicesReq, queryLog, subFetchLog>>]_vars
  /\ [][sessionReq.st = "done" => sessionReq' = sessionReq]_vars

C11_Witness ==
  /\ sessionReq = [st |-> "done", err |-> TRUE, user |-> Null]
  /\ authAlerts = 1
  /\ bookingRequests = <<>>
  /\ eventsHandled = 1
  /\ services = Catalog

\* C12: isLoadingServices is true until the catalog fetch completes and false
\* ever after, whatever its outcome; the catalog is the fetched rows on
\* success and empty on failure; no other fetch touches either.
C12_LoadingFlag ==
  /\ servicesReq.st \in {"idle", "pending"} => (isLoadingServices /\ services = <<>>)
  /\ servicesReq.st = "done" =>
       /\ ~isLoadingServices
       /\ services = IF servicesReq.err THEN <<>> ELSE Catalog
  /\ servicesReq.st \in {"idle", "pending", "done"}
  /\ phase = "init" <=> servicesReq.st = "idle"

C12_Witness ==
  /\ servicesReq = [st |-> "done", err |-> TRUE, user |-> Null]
  /\ ~isLoadingServices
  /\ services = <<>>
  /\ sessionReq.st = "done" /\ ~sessionReq.err /\ sessionReq.user = "u1"
  /\ Len(bookingRequests) = 3


\* C13 as stated: a successful insert clears the selected service; after a
\* failed insert the handler leaves the selected service and every other
\* piece of component state unchanged.
C13_FailureLeavesSelection ==
  [][\A m \in muts :
       (Resumes(m) /\ m.kind = "insert") =>
         IF m.err
         THEN UNCHANGED <<compState, callbacks>>
         ELSE selectedServiceId' = Null]_vars

\* C13 amended: when handleBookingRequest resumes, after a successful or a
\* failed insert, the selected service is cleared and no other component
\* state changes; after a failed insert onBookingMade is not called.
C13_SelectionClearedEitherWay ==
  [][\A m \in muts :
       (Resumes(m) /\ m.kind = "insert") =>
         /\ selectedServiceId' = Null
         /\ UNCHANGED <<services, isLoadingServices, bookingRequests, clientId>>
         /\ m.err => callbacks' = callbacks]_vars

\* An insert failed, its handler has resumed and the form is closed.
C13_Witness ==
  /\ Len(insertLog) = 1
  /\ muts = {}
  /\ StoredInserts = 0
  /\ selectedServiceId = Null
  /\ callbacks = 0
  /\ hasCallback
  /\ phase = "mounted"


\* The list shows booking id with this status.
Shows(list, id, status) ==
  \E i \in 1..Len(list) : list[i].id = id /\ list[i].status = status

\* The only handleRespond/handleCancel call so far has succeeded and resumed:
\* the table and the patched list both have its status for its booking, which
\* is among the 3 bookings the user's query returns.
MutationApplied ==
  /\ mutations = 1 /\ Len(updateLog) = 1 /\ muts = {}
  /\ clientId # Null
  /\ \E r \in Range(RunBookingsQuery(db, ClientFilter(clientId))) :
       r.id = updateLog[1][1] /\ r.status = updateLog[1][2]
  /\ Shows(bookingRequests, updateLog[1][1], updateLog[1][2])

\* C14: once the re-fetch started by the change event of a successful
\* update-status or cancel has been applied, the list still shows the mutated
\* booking with its new status: after the callback has run, either the
\* re-fetch's request is still in flight or the list shows the booking.
C14_RefetchKeepsMutation ==
  [][(ChangeEventHandled /\ userRole = "client" /\ phase = "mounted" /\ MutationApplied) =>
       \/ \E f \in fetches' : f \notin fetches
       \/ Shows(bookingRequests', updateLog[1][1], updateLog[1][2])]_vars


\* C15: every change event starts a fetchBookingRequests call of its own; a
\* call suspended at an await is dropped by nothing but its own resumption;
\* and a resumed call writes its answer to the list whether or not later
\* calls have been made (the last response wins).
C15_LastResponseWins ==
  /\ [][ChangeEventHandled => Len(fetchCalls') = Len(fetchCalls) + 1]_vars
  /\ [][\A f \in fetches :
          \/ \E g \in fetches' : g.n = f.n
          \/ ResumesFetch(f, "svcReplied") \/ ResumesFetch(f, "queryReplied")]_vars
  /\ [][\A f \in fetches :
          (ResumesFetch(f, "queryReplied") /\ ~f.err) =>
            /\ Len(bookingRequests') = Len(f.rows)
            /\ \A i \in 1..Len(f.rows) :
                 /\ bookingRequests'[i].id = f.rows[i].id
                 /\ bookingRequests'[i].status = f.rows[i].status]_vars

\* The call started first (by fetchCurrentUser) resumed after the call the
\* change event started had ended, and the list shows its answer, which is
\* not what the table holds now.
C15_Witness ==
  /\ userRole = "client"
  /\ fetchCalls = <<"u1", Null>>
  /\ fetches = {}
  /\ eventsHandled = 1
  /\ bookingRequests # <<>>
  /\ bookingRequests # FormatRequests(RunBookingsQuery(db, ClientFilter("u1")))


\* C16: when handleRespond or handleCancel resumes on a failed update, the
\* list and every other piece of component state stay as they were, no write
\* is issued again, no fetch is started, and the table is not touched.
C16_FailedUpdateChangesNothing ==
  [][\A m \in muts :
       (Resumes(m) /\ m.kind \in {"respond", "cancel"} /\ m.err) =>
         /\ UNCHANGED <<compState, sessionReq, servicesReq, fetches>>
         /\ muts' = muts \ {m}
         /\ UNCHANGED <<updateLog, insertLog, fetchCalls, queryLog, callbacks, db>>]_vars

\* A cancel of the first listed booking failed and has resumed: the entry
\* still shows the status the fetch gave it.
C16_Witness ==
  /\ updateLog = << <<4, "cancelled">> >>
  /\ muts = {}
  /\ db = SeedBookings
  /\ Len(bookingRequests) = 3
  /\ bookingRequests[1].id = 4
  /\ bookingRequests[1].status = "pending"


\* The step is the backend accepting the write m.
Accepts(m) ==
  /\ m \in muts /\ m.st = "sent"
  /\ [m EXCEPT !.st = "replied"] \in muts'

\* C17: handleCancel(id) is handleRespond(id, "cancelled"): each call issues
\* one update of the status of the row with that id to "cancelled", the
\* table is changed as by that update, on success the list is patched as
\* update-status patches it (only the matching entry, status "cancelled"),
\* on failure it is left alone, and a cancel of an entry that already shows
\* "cancelled" leaves the list as it is.
C17_CancelIsUpdateStatus ==
  /\ [](\A m \in muts : m.kind = "cancel" =>
          /\ m.status = "cancelled"
          /\ <<m.id, "cancelled">> \in Range(updateLog))
  /\ [](Len(updateLog) = mutations)
  /\ [][\A m \in muts : (Accepts(m) /\ m.kind = "cancel") =>
          \E touch \in BOOLEAN : db' = UpdateStatus(db, m.id, "cancelled", touch)]_vars
  /\ [][\A m \in muts : (Resumes(m) /\ m.kind = "cancel") =>
          bookingRequests' =
            IF m.err THEN bookingRequests
            ELSE PatchStatus(bookingRequests, m.id, "cancelled")]_vars
  /\ [][\A m \in muts :
          (Resumes(m) /\ m.kind = "cancel" /\ Shows(bookingRequests, m.id, "cancelled")) =>
            bookingRequests' = bookingRequests]_vars

\* The first listed booking was cancelled twice, both updates succeeded and
\* both calls have resumed, before any change event was handled.
C17_Witness ==
  /\ updateLog = << <<4, "cancelled">>, <<4, "cancelled">> >>
  /\ muts = {}
  /\ events = 2
  /\ eventsHandled = 0
  /\ Len(bookingRequests) = 3
  /\ Shows(bookingRequests, 4, "cancelled")
  /\ Shows(bookingRequests, 3, "confirmed")


\* The session fetch has resolved with a user identifier.
SessionResolvedUser ==
  sessionReq.st = "done" /\ ~sessionReq.err /\ sessionReq.user \in Users

\* C18: while the session fetch has not resolved with a user identifier no
\* bookings query (nor the practitioner's services select) has been issued or
\* is in flight, whatever events have been handled; and every query issued is
\* scoped to the identifier the session resolved: client_id = that identifier
\* for a client, the services owned by it for a practitioner.
C18_QueriesAfterSession ==
  /\ ~SessionResolvedUser =>
       /\ queryLog = <<>> /\ subFetchLog = <<>> /\ fetches = {}
       /\ \A i \in 1..Len(fetchCalls) : fetchCalls[i] = Null
  /\ \A f \in fetches : f.uid = sessionReq.user
  /\ \A i \in 1..Len(subFetchLog) : subFetchLog[i] = sessionReq.user
  /\ \A i \in 1..Len(queryLog) :
       queryLog[i] = IF userRole = "client" THEN ClientFilter(sessionReq.user)
                     ELSE ServiceFilter(OwnedServiceIds(sessionReq.user))

\* A change event was handled while the session fetch was in flight: no
\* query was issued.
C18_Witness ==
  /\ sessionReq.st = "pending"
  /\ eventsHandled = 1
  /\ fetchCalls = <<Null>>
  /\ queryLog = <<>>
  /\ subFetchLog = <<>>


\* The step is the effect's cleanup.
Unmounts == phase = "mounted" /\ phase' = "unmounted"

\* C19: the cleanup removes the channel and nothing else: the session fetch,
\* the catalog fetch, the booking fetches and the writes in flight stay in
\* flight; after the unmount each of them can still take its next step; and
\* the steps they take then call the setters and onBookingMade as they do
\* while mounted.
C19_UnmountAbortsNothing ==
  /\ [][Unmounts =>
          /\ UNCHANGED <<compState, taskState, callbacks>>
          /\ channels' = {}]_vars
  /\ [](phase = "unmounted" =>
          /\ sessionReq.st = "pending" => ENABLED SessionContinue
          /\ servicesReq.st = "pending" => ENABLED ServicesContinue
          /\ \A f \in fetches :
               ENABLED (\/ FetchSubReply(f) \/ FetchSubContinue(f)
                        \/ FetchQueryReply(f) \/ FetchQueryContinue(f))
          /\ \A m \in muts :
               ENABLED (\/ MutReply(m) \/ BookingRequestContinue(m)
                        \/ RespondContinue(m) \/ CancelContinue(m)))
  /\ [][phase = "unmounted" =>
          /\ (SessionResolves /\ sessionReq'.user # Null) =>
               clientId' = sessionReq'.user
          /\ (servicesReq.st = "pending" /\ servicesReq'.st = "done") =>
               /\ ~isLoadingServices'
               /\ services' = IF servicesReq'.err THEN <<>> ELSE Catalog
          /\ \A f \in fetches : ResumesFetch(f, "queryReplied") =>
               bookingRequests' = IF f.err THEN <<>> ELSE FormatRequests(f.rows)
          /\ \A m \in muts : (Resumes(m) /\ m.kind = "insert") =>
               /\ selectedServiceId' = Null
               /\ callbacks' = IF m.err THEN callbacks ELSE NotifyBookingMade
          /\ \A m \in muts : (Resumes(m) /\ m.kind # "insert" /\ ~m.err) =>
               bookingRequests' = PatchStatus(bookingRequests, m.id, m.status)]_vars

\* The component was unmounted with the booking fetch not yet answered, and
\* with an accepted insert whose continuation (onBookingMade, clearing the
\* selected service) has not run.
C19_Witness ==
  /\ phase = "unmounted"
  /\ channels = {}
  /\ hasCallback /\ callbacks = 0
  /\ selectedServiceId # Null
  /\ \E m \in muts : m.kind = "insert" /\ m.st = "replied" /\ ~m.err
  /\ \E f \in fetches : f.st = "query"
  /\ bookingRequests = <<>>


\* The identifiers of the list, in order
IdsOf(list) == [i \in 1..Len(list) |-> list[i].id]

\* C20: the list never holds more than 3 entries and no identifier twice;
\* a resumed handleRespond or handleCancel leaves the entries' identifiers
\* and their order as they were.
C20_ListAtMostThreeDistinct ==
  /\ [](/\ Len(bookingRequests) <= 3
        /\ \A i, j \in 1..Len(bookingRequests) :
             i # j => bookingRequests[i].id # bookingRequests[j].id)
  /\ [][\A m \in muts : (Resumes(m) /\ m.kind \in {"respond", "cancel"}) =>
          IdsOf(bookingRequests') = IdsOf(bookingRequests)]_vars

\* The signed-in client has more than 3 bookings in the table, the list
\* shows the 3 latest, and a successful respond has patched the second.
C20_Witness ==
  /\ Len(SelectSeq(db, LAMBDA r : r.client_id = clientId)) > 3
  /\ IdsOf(bookingRequests) = <<4, 3, 1>>
  /\ updateLog = << <<3, "declined">> >>
  /\ muts = {}
  /\ bookingRequests[2].status = "declined"

====
